---- MODULE Spec2Model ----
(***************************************************************************)
(* Hollow Bridge relay (src/relay/server.js): the session registry, the    *)
(* per-connection handlers (connection, "hb:event", "disconnect") and the  *)
(* room broadcast, as a state machine.  Every handler runs to completion   *)
(* (Node's single event loop), so each handler is one action.              *)
(*                                                                         *)
(* JavaScript values are written as strings ("undefined", "null", "0",     *)
(* "false", "''", "{x:1}", ...); handshake strings are sequences of tokens *)
(* where the token " " is a whitespace character and any other token is a  *)
(* run of non-whitespace characters.                                       *)
(***************************************************************************)
EXTENDS Integers, Sequences, FiniteSets, TLC

\* ---------------------------------------------------------------- bounds
NumConn == 2

Conns == 1..NumConn

\* ------------------------------------------------------ JavaScript values
Undefined == "undefined"
Null == "null"
FalsyValues == {Undefined, Null, "0", "false", "''"}
ObjectValues == {"{x:1}", "{x:2}"}
DataValues == {Undefined, "0"} \cup ObjectValues

Truthy(v) == v \notin FalsyValues

\* a || b
Or(a, b) == IF Truthy(a) THEN a ELSE b

\* An inbound payload: v is the value itself when it is not a plain object,
\* and "object" when it is one; type and data are its two properties
\* (reading a property the object does not have yields undefined).
Prim(v) == [v |-> v, type |-> Undefined, data |-> Undefined]
Obj(t, d) == [v |-> "object", type |-> t, data |-> d]

MalformedPayloads == {Prim(Undefined), Prim(Null), Prim("'hello'"), Prim("5")}
StatePayloads == {Obj("state", d) : d \in DataValues}
OtherPayloads == {Obj("emoji", "{x:1}")}
Payloads == MalformedPayloads \cup StatePayloads \cup OtherPayloads

\* A payload that is null, absent or a primitive.
IsMalformed(p) == p.v # "object"

\* typeof payload
TypeOf(p) ==
  CASE p.v = "object" -> "object"
    [] p.v = Null -> "object"
    [] p.v = Undefined -> "undefined"
    [] p.v \in {"5", "0"} -> "number"
    [] OTHER -> "string"

\* !payload
Not(p) == p.v # "object" /\ ~Truthy(p.v)

\* ------------------------------------------------------ handshake strings
Missing == [has |-> FALSE, str |-> <<>>]
Str(s) == [has |-> TRUE, str |-> s]

SessionIdInputs ==
  {Missing, Str(<<" ">>), Str(<<"a">>), Str(<<" ", "a", " ">>), Str(<<"b">>)}
RoleInputs ==
  {Missing, Str(<<"publisher">>), Str(<<"viewer">>), Str(<<"Publisher">>),
   Str(<<" ", "publisher", " ">>)}

\* A handshake string that is missing, or empty once whitespace is trimmed.
IsBlank(x) == ~x.has \/ \A i \in 1..Len(x.str) : x.str[i] = " "

\* String(x || "")
ToStr(x) == IF x.has /\ x.str # <<>> THEN x.str ELSE <<>>

RECURSIVE TrimStart(_)
TrimStart(s) == IF s # <<>> /\ Head(s) = " " THEN TrimStart(Tail(s)) ELSE s

RECURSIVE TrimEnd(_)
TrimEnd(s) ==
  IF s # <<>> /\ s[Len(s)] = " " THEN TrimEnd(SubSeq(s, 1, Len(s) - 1)) ELSE s

\* String.prototype.trim
Trim(s) == TrimEnd(TrimStart(s))

\* Every string that can name a session or a room.
Sids == {ToStr(x) : x \in SessionIdInputs} \cup {Trim(ToStr(x)) : x \in SessionIdInputs}

\* ------------------------------------------------------------------ state
NoRec == 0
RecIds == 1..(2 * NumConn)

VARIABLES
  sessions,   \* the Map: sid -> identity of the session object, NoRec if no entry
  heap,       \* session objects by identity: lastState, publishers, viewers
  status,     \* per connection: "connecting", "active", "closing", "disconnected"
  sid,        \* per connection: the closure's sid
  r,          \* per connection: the closure's r
  s,          \* per connection: the closure's s (identity of the captured object)
  rooms,      \* room name -> sockets joined to it
  sent,       \* per connection: the messages the last handler emitted to it, in order
  cacheHist,  \* history: per session object, the data field of the last "state" event
              \* handled for it and the session of its sender (NoHist: no data field)
  lost,       \* history: sid -> it has no entry now, and had a cached state when evicted
  last        \* history: the handler that ran last, for which connection (connect and
              \* disconnect) and session, what kind of input it was given, how it ended

vars == <<sessions, heap, status, sid, r, s, rooms, sent, cacheHist, lost, last>>

NewSession == [lastState |-> Null, publishers |-> 0, viewers |-> 0]
Nothing == [c \in Conns |-> <<>>]
NoHist == [data |-> "none", origin |-> <<>>]

\* What `last` holds for a handler that was given no payload object.
NoPayload == [type |-> "none", data |-> "none"]

Ran(op, c, k, input, how) ==
  [op |-> op, c |-> c, k |-> k, input |-> input, how |-> how, p |-> NoPayload]

Init ==
  /\ sessions = [k \in Sids |-> NoRec]
  /\ heap = [i \in RecIds |-> NewSession]
  /\ status = [c \in Conns |-> "connecting"]
  /\ sid = [c \in Conns |-> <<>>]
  /\ r = [c \in Conns |-> <<>>]
  /\ s = [c \in Conns |-> NoRec]
  /\ rooms = [k \in Sids |-> {}]
  /\ sent = Nothing
  /\ cacheHist = [i \in RecIds |-> NoHist]
  /\ lost = [k \in Sids |-> FALSE]
  /\ last = Ran("init", 0, <<>>, "", "")

\* ------------------------------------------------------- session objects
\* A session object is live while the Map or an active connection's closure
\* refers to it; the others are garbage.
Live(i, sess, st, sv) ==
  \/ \E k \in Sids : sess[k] = i
  \/ \E c \in Conns : st[c] = "active" /\ sv[c] = i

\* The identity a newly constructed object gets: the first one not in use.
FreshId ==
  CHOOSE i \in RecIds :
    /\ ~Live(i, sessions, status, s)
    /\ \A j \in RecIds : j < i => Live(j, sessions, status, s)

\* Garbage objects are forgotten.
Collect(h, blank, sess, st, sv) ==
  [i \in RecIds |-> IF Live(i, sess, st, sv) THEN h[i] ELSE blank]

\* Variant: the sessions.has test is forgotten, every call constructs an object.
getSessionAlwaysNew(k) == FreshId

\* getSession(sessionId): the object it returns ...
getSession(k) == IF sessions[k] = NoRec THEN FreshId ELSE sessions[k]

\* ... and the Map it leaves behind.
sessionsAfterGet(k) == [sessions EXCEPT ![k] = getSession(k)]

\* ----------------------------------------------------- io.on("connection")
\* Variant: the .trim() is forgotten.
sidOfUntrimmed(q) == ToStr(q.sessionId)

\* const sid = String(sessionId || "").trim()
sidOf(q) == Trim(ToStr(q.sessionId))

\* const r = String(role || "").trim()
rOf(q) == Trim(ToStr(q.role))

\* if (!sid): the handshake is refused
Rejected(k) == k = <<>>

\* Variant: the comparison ignores case.
IsPublisherAnyCase(rv) == rv \in {<<"publisher">>, <<"Publisher">>}

\* r === "publisher"
IsPublisher(rv) == rv = <<"publisher">>

\* Variant: the else is forgotten.
JoinedBoth(rec, rv) ==
  IF IsPublisher(rv)
    THEN [rec EXCEPT !.publishers = @ + 1, !.viewers = @ + 1]
    ELSE [rec EXCEPT !.viewers = @ + 1]

\* if (r === "publisher") s.publishers += 1; else s.viewers += 1;
Joined(rec, rv) ==
  IF IsPublisher(rv)
    THEN [rec EXCEPT !.publishers = @ + 1]
    ELSE [rec EXCEPT !.viewers = @ + 1]

\* if (s.lastState)
SendsCatchUp(rec) == Truthy(rec.lastState)

\* Variant: the catch-up goes out with io.to(sid).emit.
CatchUpToRoom(c, k) == rooms[k] \cup {c}

\* socket.emit(...): who the catch-up is sent to
CatchUpRecipients(c, k) == {c}

\* { type: "state", data: s.lastState }
CatchUp(rec, hist) ==
  [kind |-> "catchup", payload |-> Obj("state", rec.lastState), origin |-> hist.origin]

Connect(c, q) ==
  LET k == sidOf(q)
      rv == rOf(q)
      id == getSession(k)
      rec == Joined(IF sessions[k] = NoRec THEN NewSession ELSE heap[id], rv)
      hist == IF sessions[k] = NoRec THEN NoHist ELSE cacheHist[id]
      to == IF SendsCatchUp(rec) THEN CatchUpRecipients(c, k) ELSE {}
  IN
  /\ status[c] = "connecting"
  \* handles are numbered in the order their handshakes arrive
  /\ \A d \in Conns : d < c => status[d] # "connecting"
  /\ last' = Ran("connect", c, k, IF IsBlank(q.sessionId) THEN "blank" ELSE "named",
                  IF Rejected(k) THEN "rejected" ELSE IF lost[k] THEN "recreated" ELSE "joined")
  /\ IF Rejected(k)
       THEN \* socket.disconnect(true); return;
         /\ sent' = Nothing
         /\ status' = [status EXCEPT ![c] = "closing"]
         /\ UNCHANGED <<sessions, heap, sid, r, s, rooms, cacheHist, lost>>
       ELSE
         /\ status' = [status EXCEPT ![c] = "active"]
         /\ sid' = [sid EXCEPT ![c] = k]
         /\ r' = [r EXCEPT ![c] = rv]
         /\ s' = [s EXCEPT ![c] = id]
         /\ rooms' = [rooms EXCEPT ![k] = @ \cup {c}]
         /\ sessions' = sessionsAfterGet(k)
         /\ heap' = [heap EXCEPT ![id] = rec]
         /\ cacheHist' = [cacheHist EXCEPT ![id] = hist]
         /\ sent' = [d \in Conns |-> IF d \in to THEN <<CatchUp(rec, hist)>> ELSE <<>>]
         /\ lost' = [lost EXCEPT ![k] = FALSE]

\* ------------------------------------------------- socket.on("hb:event")
\* Variant: the typeof test is forgotten.
DroppedIfFalsy(p) == Not(p)

\* if (!payload || typeof payload !== "object") return;
Dropped(p) == Not(p) \/ TypeOf(p) # "object"

\* Variant: a state event without data keeps the old snapshot.
CachedKeep(p, old) == IF p.type = "state" THEN Or(p.data, old) ELSE old

\* Variant: the type test is forgotten.
CachedAnyType(p, old) == Or(p.data, Null)

\* if (payload.type === "state") s.lastState = payload.data || null;
Cached(p, old) == IF p.type = "state" THEN Or(p.data, Null) ELSE old

\* Variant: the broadcast goes out with io.emit.
RecipientsEveryone(k) == {d \in Conns : status[d] = "active"}

\* io.to(sid): the sockets the broadcast goes to
Recipients(k) == rooms[k]

Broadcast(c, p) == [kind |-> "broadcast", payload |-> p, origin |-> sid[c]]

\* fail: io.to(sid).emit throws (the catch block swallows it)
Event(c, p, fail) ==
  /\ status[c] = "active"
  /\ last' = [Ran("event", 0, sid[c], IF IsMalformed(p) THEN "malformed" ELSE "object",
                   IF Dropped(p) THEN "dropped" ELSE IF fail THEN "failed" ELSE "relayed")
                EXCEPT !.p = IF IsMalformed(p) THEN NoPayload ELSE p]
  /\ UNCHANGED <<sessions, status, sid, r, s, rooms, lost>>
  /\ IF Dropped(p)
       THEN /\ fail = FALSE
            /\ sent' = Nothing
            /\ UNCHANGED <<heap, cacheHist>>
       ELSE
         /\ heap' = [heap EXCEPT ![s[c]].lastState = Cached(p, @)]
         /\ cacheHist' = IF p.type = "state"
                           THEN [cacheHist EXCEPT ![s[c]] =
                                   IF p.data = Undefined THEN NoHist
                                   ELSE [data |-> p.data, origin |-> sid[c]]]
                           ELSE cacheHist
         /\ sent' = [d \in Conns |->
                       IF ~fail /\ d \in Recipients(sid[c]) THEN <<Broadcast(c, p)>> ELSE <<>>]

\* ------------------------------------------------ socket.on("disconnect")
\* Variant: Math.min written for Math.max.
ClampMin(n) == IF n - 1 < 0 THEN n - 1 ELSE 0

\* Math.max(0, n - 1)
Clamp(n) == IF n - 1 > 0 THEN n - 1 ELSE 0

\* Variant: the role is not looked at on disconnect.
LeftViewersOnly(rec, rv) == [rec EXCEPT !.viewers = Clamp(@)]

\* if (r === "publisher") ss.publishers = ...; else ss.viewers = ...;
Left(rec, rv) ==
  IF IsPublisher(rv)
    THEN [rec EXCEPT !.publishers = Clamp(@)]
    ELSE [rec EXCEPT !.viewers = Clamp(@)]

\* Variant: || written for &&.
EvictsEither(rec) == rec.publishers = 0 \/ rec.viewers = 0

\* Variant: the cleanup is deferred ("after a bit") instead of done in the handler.
EvictsLater(rec) == FALSE

\* if (ss.publishers === 0 && ss.viewers === 0)
Evicts(rec) == rec.publishers = 0 /\ rec.viewers = 0

\* The transport closes connection c.  A refused connection has no
\* "disconnect" listener; an active one leaves its rooms and runs it.
Disconnect(c) ==
  LET k == sid[c]
      id == getSession(k)
      rec == Left(IF sessions[k] = NoRec THEN NewSession ELSE heap[id], r[c])
      sess == IF Evicts(rec) THEN [sessions EXCEPT ![k] = NoRec] ELSE sessionsAfterGet(k)
      st == [status EXCEPT ![c] = "disconnected"]
      sv == [s EXCEPT ![c] = NoRec]
  IN
  /\ status[c] \in {"active", "closing"}
  /\ last' = Ran("disconnect", c, k, "",
                  IF status[c] = "closing" THEN "closed"
                  ELSE IF sess[k] = NoRec THEN "evicted" ELSE "left")
  /\ status' = st
  /\ sent' = Nothing
  /\ IF status[c] = "closing"
       THEN UNCHANGED <<sessions, heap, sid, r, s, rooms, cacheHist, lost>>
       ELSE
         /\ rooms' = [rooms EXCEPT ![k] = @ \ {c}]
         /\ sid' = [sid EXCEPT ![c] = <<>>]
         /\ r' = [r EXCEPT ![c] = <<>>]
         /\ s' = sv
         /\ lost' = IF \E d \in Conns \ {c} : status[d] = "active" /\ sid[d] = k
                      THEN lost
                      ELSE [lost EXCEPT ![k] = sessions[k] # NoRec /\ Truthy(heap[id].lastState)]
         /\ sessions' = sess
         /\ heap' = Collect([heap EXCEPT ![id] = rec], NewSession, sess, st, sv)
         /\ cacheHist' =
              Collect(IF sessions[k] = NoRec THEN [cacheHist EXCEPT ![id] = NoHist] ELSE cacheHist,
                      NoHist, sess, st, sv)

\* ------------------------------------------------------------------ system
Next ==
  \/ \E c \in Conns, a \in SessionIdInputs, b \in RoleInputs :
       Connect(c, [sessionId |-> a, role |-> b])
  \/ \E c \in Conns, p \in Payloads : Event(c, p, FALSE)
  \/ \E c \in Conns : Disconnect(c)

Spec == Init /\ [][Next]_vars

\* The relay with a transport whose broadcast can throw.
NextFaulty ==
  \/ Next
  \/ \E c \in Conns, p \in Payloads : Event(c, p, TRUE)

SpecFaulty == Init /\ [][NextFaulty]_vars

TypeOK ==
  /\ \A k \in Sids : sessions[k] \in RecIds \cup {NoRec}
  /\ \A c \in Conns : status[c] \in {"connecting", "active", "closing", "disconnected"}

\* ------------------------------------------------------------ properties
Registered(k) == sessions[k] # NoRec
Session(k) == heap[sessions[k]]
Members(k) == {d \in Conns : status[d] = "active" /\ sid[d] = k}

\* Connection c's handshake is accepted in this step.
Joins(c) == status[c] = "connecting" /\ status'[c] = "active"

\* lastState of the session named k as a joiner finds it.
Found(k) == IF Registered(k) THEN Session(k).lastState ELSE Null

IsCatchUp(m, v) == m.kind = "catchup" /\ m.payload = Obj("state", v)

\* C1: every session in the registry has publishers >= 0 and viewers >= 0,
\* whatever connects, events and disconnects have run.
C1_CountsNonNegative ==
  \A k \in Sids : Registered(k) => Session(k).publishers >= 0 /\ Session(k).viewers >= 0

C1_Witness ==
  /\ last.op = "disconnect" /\ last.how = "left"
  /\ \E k \in Sids : Registered(k) /\ Session(k).publishers + Session(k).viewers >= 1

C3_CatchUpOnJoin ==
  [][\A c \in Conns :
       /\ Joins(c) =>
            IF Found(sid'[c]) # Null
              THEN /\ Len(sent'[c]) = 1
                   /\ IsCatchUp(sent'[c][1], Found(sid'[c]))
                   /\ \A d \in Conns \ {c} : sent'[d] = <<>>
                   /\ heap'[sessions'[sid'[c]]].lastState = Found(sid'[c])
              ELSE sent' = Nothing
       /\ status'[c] = "connecting" => sent'[c] = <<>>
       /\ ~Joins(c) => \A i \in 1..Len(sent'[c]) : sent'[c][i].kind # "catchup"
    ]_vars

C3_Witness ==
  \E c \in Conns, d \in Conns :
    /\ c # d
    /\ last = Ran("connect", c, sid[c], "named", "joined")
    /\ status[d] = "active" /\ sid[d] = sid[c]
    /\ Len(sent[c]) = 1 /\ sent[c][1].kind = "catchup"
    /\ sent[d] = <<>>

\* What the claims call the data field of a "state" event being carried
\* over: the value itself, null when the field is absent.
DataOrNull(p) == IF p.data = Undefined THEN Null ELSE p.data

\* C4: after a well-formed "state" event from an active connection, the
\* owning session's lastState equals the event's data field whenever the field
\* is present (0 and the empty string included) and is null when it is absent.
C4_CachesData ==
  [][\A c \in Conns, p \in StatePayloads, fail \in BOOLEAN :
       Event(c, p, fail) => heap'[sessions'[sid[c]]].lastState = DataOrNull(p)
    ]_vars

\* C5: a connection joining a session that has not been evicted since its
\* most recent "state" event, that event carrying data d, is sent
\* {type: "state", data: d} as its catch-up.
C5_LateJoinerGetsLastState ==
  [][\A c \in Conns :
       (/\ Joins(c)
        /\ Registered(sid'[c])
        /\ cacheHist[sessions[sid'[c]]].data # "none")
       => /\ Len(sent'[c]) = 1
          /\ IsCatchUp(sent'[c][1], cacheHist[sessions[sid'[c]]].data)
    ]_vars

\* C6: an inbound payload that is null, absent or a primitive is broadcast to
\* nobody and changes no session's lastState or counters, nor the registry,
\* and its sender stays active.
C6_MalformedDropped ==
  [][(last'.op = "event" /\ last'.input = "malformed") =>
       /\ sent' = Nothing
       /\ UNCHANGED <<sessions, heap, rooms>>
       /\ UNCHANGED status
    ]_vars

C6_Witness ==
  /\ last.op = "event" /\ last.input = "malformed"
  /\ \E k \in Sids : Registered(k) /\ Session(k).lastState # Null

C8_FailureChangesNothing ==
  [][(last'.op = "event" /\ last'.how = "failed") =>
       /\ heap'[sessions'[last'.k]] = heap[sessions[last'.k]]
       /\ UNCHANGED status
    ]_vars

\* C9: a handshake whose session identifier is missing or blank is refused:
\* the connection goes to its forced close without becoming active, no session
\* is created, no counter or room changes and nothing is sent; and from then
\* on it is never active, is sent nothing, and its closing changes no session.
C9_RejectedHandshake ==
  [][\A c \in Conns :
       /\ (last'.op = "connect" /\ last'.c = c /\ last'.input = "blank"
             /\ status[c] = "connecting") =>
            /\ status'[c] = "closing"
            /\ sent' = Nothing
            /\ UNCHANGED <<sessions, heap, rooms>>
       /\ status[c] = "closing" =>
            /\ status'[c] \in {"closing", "disconnected"}
            /\ sent'[c] = <<>>
            /\ \A k \in Sids : c \notin rooms'[k]
            /\ status'[c] = "disconnected" => UNCHANGED <<sessions, heap, rooms>>
    ]_vars

C9_Witness ==
  \E c \in Conns, d \in Conns :
    /\ last = Ran("disconnect", c, <<>>, "", "closed")
    /\ status[d] = "active"
    /\ Registered(sid[d])

Relays == last'.op = "event" /\ last'.input = "object"

RoleCount(k, pub) ==
  Cardinality({d \in Members(k) : (r[d] = <<"publisher">>) = pub})

\* C12: a session is never evicted under an active connection: the session
\* of every active connection is in the registry, and its counter for that
\* connection's role counts it.
C12_ActiveIsCounted ==
  \A c \in Conns :
    status[c] = "active" =>
      /\ Registered(sid[c])
      /\ IF r[c] = <<"publisher">>
           THEN Session(sid[c]).publishers >= RoleCount(sid[c], TRUE)
           ELSE Session(sid[c]).viewers >= RoleCount(sid[c], FALSE)

C12_Witness ==
  \E c \in Conns, d \in Conns :
    /\ last = Ran("disconnect", c, sid[d], "", "left")
    /\ status[d] = "active"
    /\ Registered(sid[d])

\* The counters of the session named k, zero when it has no entry.
Count(k) ==
  IF Registered(k) THEN [publishers |-> Session(k).publishers, viewers |-> Session(k).viewers]
  ELSE [publishers |-> 0, viewers |-> 0]

\* The step is connection c's accepted handshake.
Accepts(c) == last'.op = "connect" /\ last'.c = c /\ Joins(c)

\* The step is connection c's handshake with the query { sessionId: a, role: b }.
ConnectsWith(c, a, b) ==
  LET q == [sessionId |-> a, role |-> b]
  IN  sidOf(q) = last'.k /\ rOf(q) = r'[c] /\ Connect(c, q)

\* C13 as claimed: a connection is counted as a publisher exactly when the
\* role string it supplied is "publisher" (a padded " publisher " is not).
C13_PublisherIffExact ==
  [][\A c \in Conns : Accepts(c) =>
       \A a \in SessionIdInputs, b \in RoleInputs, k \in {last'.k} :
         ConnectsWith(c, a, b) =>
           IF b = Str(<<"publisher">>)
             THEN Count(k)' = [Count(k) EXCEPT !.publishers = @ + 1]
             ELSE Count(k)' = [Count(k) EXCEPT !.viewers = @ + 1]
    ]_vars

\* C13 amended: a connection is counted as a publisher exactly when the role
\* string it supplied, with surrounding whitespace trimmed, is "publisher"
\* (case-sensitively); with any other role, or none, it is counted as a viewer.
C13_PublisherIffTrimmed ==
  [][\A c \in Conns : Accepts(c) =>
       \A a \in SessionIdInputs, b \in RoleInputs, k \in {last'.k} :
         ConnectsWith(c, a, b) =>
           IF b.has /\ Trim(b.str) = <<"publisher">>
             THEN Count(k)' = [Count(k) EXCEPT !.publishers = @ + 1]
             ELSE Count(k)' = [Count(k) EXCEPT !.viewers = @ + 1]
    ]_vars

C13_Witness ==
  \E c \in Conns, d \in Conns :
    /\ status[c] = "active" /\ status[d] = "active" /\ sid[c] = sid[d]
    /\ last = Ran("connect", d, sid[d], "named", "joined")
    /\ r[c] = <<"publisher">> /\ r[d] = <<"Publisher">>
    /\ Session(sid[c]).publishers = 1 /\ Session(sid[c]).viewers = 1

\* C14: an event changes no counter, no registry entry and no connection's
\* role, session or status, and an event whose type is not "state" leaves
\* every lastState as it was.
C14_NoOtherEffect ==
  [][/\ last'.op = "event" =>
          /\ UNCHANGED <<sessions, status, sid, r, s, rooms>>
          /\ \A i \in RecIds : /\ heap'[i].publishers = heap[i].publishers
                               /\ heap'[i].viewers = heap[i].viewers
     /\ (last'.op = "event" /\ last'.p.type # "state") => heap' = heap
    ]_vars

C14_Witness ==
  \E c \in Conns :
    /\ last.op = "event" /\ last.k = sid[c] /\ last.how = "relayed"
    /\ status[c] = "active"
    /\ Len(sent[c]) = 1 /\ sent[c][1].payload.type = "emoji"
    /\ Session(sid[c]).lastState = "{x:2}"

Relayed(k, p) == [kind |-> "broadcast", payload |-> p, origin |-> k]

Leaves(c) == status[c] = "active" /\ status'[c] = "disconnected"

\* The steps a connection's status can take.
Lifecycle ==
  {<<"connecting", "active">>, <<"connecting", "closing">>,
   <<"active", "disconnected">>, <<"closing", "disconnected">>}

\* The counters of the session named k go from what they are to cnt, and no
\* other session's counters change.
CountsBecome(k, cnt) ==
  /\ Count(k)' = cnt
  /\ \A k2 \in Sids \ {k} : Count(k2)' = Count(k2)

\* C17: a connection goes connecting -> active -> disconnected and stays
\* there; becoming active adds one to the counter of its role and to nothing
\* else, disconnecting takes one from that same counter, and a step in which
\* no connection joins or leaves changes no counter (for an event: none of
\* its session); an event is relayed only for a session with an active
\* sender, a step that is not an event changes lastState only by evicting
\* the session, and only active connections are sent anything.
C17_Lifecycle ==
  [][/\ \A c \in Conns :
          /\ status'[c] # status[c] => <<status[c], status'[c]>> \in Lifecycle
          /\ sent'[c] # <<>> => status'[c] = "active"
          /\ Joins(c) =>
               \A k \in {sid'[c]} :
                 CountsBecome(k, IF r'[c] = <<"publisher">>
                                   THEN [Count(k) EXCEPT !.publishers = @ + 1]
                                   ELSE [Count(k) EXCEPT !.viewers = @ + 1])
          /\ Leaves(c) =>
               \A k \in {sid[c]} :
                 CountsBecome(k, IF r[c] = <<"publisher">>
                                   THEN [Count(k) EXCEPT !.publishers = @ - 1]
                                   ELSE [Count(k) EXCEPT !.viewers = @ - 1])
     /\ IF last'.op = "event"
          THEN /\ Members(last'.k) # {}
               /\ \A k \in {last'.k} : Count(k)' = Count(k)
          ELSE /\ (\A c \in Conns : ~Joins(c) /\ ~Leaves(c)) =>
                    \A k \in Sids : Count(k)' = Count(k)
               /\ \A k \in Sids :
                    Found(k)' # Found(k) => (last'.k = k /\ last'.how = "evicted")
    ]_vars

C17_Witness ==
  /\ \A c \in Conns : status[c] = "disconnected"
  /\ last.op = "disconnect" /\ last.how = "evicted"
  /\ \E k \in Sids : lost[k]

\* C18: while a connection is active, the session object its handlers
\* captured is the one registered under its session identifier, so a "state"
\* event it relays sets the lastState that later joiners are caught up from.
C18_CapturedIsRegistered ==
  [][/\ \A c \in Conns :
          status'[c] = "active" => (s'[c] # NoRec /\ s'[c] = sessions'[sid'[c]])
     /\ (Relays /\ last'.p.type = "state") =>
          \A k \in {last'.k} : Found(k)' = Or(last'.p.data, Null)
    ]_vars

C18_Witness ==
  \E c \in Conns, d \in Conns :
    /\ c # d
    /\ status[c] = "active" /\ status[d] = "active"
    /\ sid[c] = sid[d] /\ s[c] = s[d] /\ s[c] = sessions[sid[c]]
    /\ last.op = "event" /\ last.how = "relayed" /\ last.p.type = "state"
    /\ Session(sid[c]).lastState = "{x:1}"
====
